---------------------------- MODULE Spec2Model ----------------------------
(***************************************************************************)
(* Model of src/app.py: the Streamlit plant dashboard.                     *)
(*                                                                         *)
(* One script run is one atomic action (Streamlit runs the script top to   *)
(* bottom for one session at a time).  A run with the button pressed       *)
(* executes the alert block, the inference call, the session-history       *)
(* append and save_to_csv, and every run ends by rendering the history     *)
(* table from load_history().                                              *)
(*                                                                         *)
(* Text is modelled as a sequence of one-character strings, so that the    *)
(* CSV writer (quoting) and the CSV reader (tokenising, NA filtering,      *)
(* column type inference) are computed and not assumed to be inverse.      *)
(* The four column names are kept as single tokens; they contain no        *)
(* delimiter, quote or line break.                                         *)
(*                                                                         *)
(* Modelling decisions:                                                    *)
(*  - one session; st.session_state starts as lines 28-33 leave it;        *)
(*  - time.time() (line 139) and datetime.now() (line 79) read the same    *)
(*    clock `now`, in whole seconds, UTC, inside the first day of the      *)
(*    epoch, so the date part of strftime is constant;                     *)
(*  - genai.Client(...) (line 136) does not raise: API_KEY was read at     *)
(*    start-up (lines 18-23) and the constructor makes no request;         *)
(*  - the uploaded image only selects the prompt text (lines 153-169),     *)
(*    which no state of the program depends on; it is left out.            *)
(***************************************************************************)
EXTENDS Naturals, Integers, Sequences, FiniteSets, TLC

VARIABLES
    now,              \* the wall clock, seconds
    token_set,        \* LINE_ACCESS_TOKEN is not None (fixed at start-up)
    last_alert_time,  \* st.session_state.last_alert_time
    history,          \* st.session_state.history
    db_exists,        \* os.path.exists(DB_FILE)
    db_bytes,         \* contents of DB_FILE
    alerts,           \* calls of send_line_broadcast so far, in order
    ui,               \* notices shown by the latest script run
    df,               \* what load_history() returned in the latest script run
    table,            \* the dataframe shown by the latest script run
    appended,         \* records handed to save_to_csv so far, in order
    run               \* the latest script run: its number and its inputs

vars == <<now, token_set, last_alert_time, history, db_exists, db_bytes,
          alerts, ui, df, table, appended, run>>

-----------------------------------------------------------------------------
(* Program constants *)

HUMIDITY_THRESHOLD == 20
COOLDOWN == 60
HEAD_ROWS == 5
HTTP_OK == 200

(* Bounds of the model *)

StartTime == 1000
MaxElapsed == 61
MaxRuns == 2
MaxStored == 4
MaxLogRuns == 2
MaxLogElapsed == 31

-----------------------------------------------------------------------------
(* Text helpers *)

Digits == <<"0", "1", "2", "3", "4", "5", "6", "7", "8", "9">>

DigitChar(d) == Digits[d + 1]

IsDigit(c) == \E d \in 0..9 : Digits[d + 1] = c

DigitVal(c) == CHOOSE d \in 0..9 : Digits[d + 1] = c

RECURSIVE IntToStr(_)
IntToStr(n) ==
    IF n < 10 THEN <<DigitChar(n)>>
    ELSE IntToStr(n \div 10) \o <<DigitChar(n % 10)>>

RECURSIVE StrToInt(_)
StrToInt(s) ==
    IF Len(s) = 0 THEN 0
    ELSE 10 * StrToInt(SubSeq(s, 1, Len(s) - 1)) + DigitVal(s[Len(s)])

Pad2(n) == <<DigitChar((n \div 10) % 10), DigitChar(n % 10)>>

strftime(t) ==
    <<"1", "9", "7", "0", "-", "0", "1", "-", "0", "1", " ">>
        \o Pad2((t \div 3600) % 24) \o <<":">>
        \o Pad2((t \div 60) % 60) \o <<":">>
        \o Pad2(t % 60)

-----------------------------------------------------------------------------
(* DataFrame.to_csv: QUOTE_MINIMAL, "," delimiter, "\n" line terminator *)

BOM == "BOM"

COLUMNS == <<<<"DateTime">>, <<"Humidity(%)">>, <<"Temperature(C)">>, <<"AI diagnosis">>>>

NeedsQuote(f) == \E i \in 1..Len(f) : f[i] \in {",", "\"", "\n"}

RECURSIVE DoubleQuotes(_)
DoubleQuotes(f) ==
    IF Len(f) = 0 THEN <<>>
    ELSE (IF Head(f) = "\"" THEN <<"\"", "\"">> ELSE <<Head(f)>>)
             \o DoubleQuotes(Tail(f))

QuoteField(f) ==
    IF NeedsQuote(f) THEN <<"\"">> \o DoubleQuotes(f) \o <<"\"">> ELSE f

RECURSIVE CsvLine(_)
CsvLine(fields) ==
    IF Len(fields) = 1 THEN QuoteField(fields[1]) \o <<"\n">>
    ELSE QuoteField(Head(fields)) \o <<",">> \o CsvLine(Tail(fields))

NewRecord(t, humidity, temperature, ai_response) ==
    [time |-> strftime(t), humidity |-> humidity,
     temperature |-> temperature, text |-> ai_response]

RecordFields(r) ==
    <<r.time, IntToStr(r.humidity), IntToStr(r.temperature), r.text>>

WriteHeader(exists) == ~exists

save_to_csv(exists, bytes, r) ==
    IF WriteHeader(exists)
    THEN <<BOM>> \o CsvLine(COLUMNS) \o CsvLine(RecordFields(r))
    ELSE bytes \o CsvLine(RecordFields(r))

-----------------------------------------------------------------------------
(* pandas.read_csv with its defaults: header on the first line, BOM       *)
(* skipped, NA filtering, per-column type inference, RangeIndex            *)

StripBOM(bytes) ==
    IF Len(bytes) > 0 /\ Head(bytes) = BOM THEN Tail(bytes) ELSE bytes

(* The tokenizer, field by field.  A field that starts with a quote runs  *)
(* to its closing quote: inside it, a doubled quote is one literal quote,  *)
(* so the closing quote is the last one of the first odd-length run of     *)
(* quotes.  Any other field runs to the next delimiter or line break.      *)

Least(S) == CHOOSE x \in S : \A y \in S : x <= y

IsQuoted(s, i) == i <= Len(s) /\ s[i] = "\""

QuoteRunStart(s, i, j) ==
    Least({k \in (i + 1)..j : \A m \in k..j : s[m] = "\""})

ClosingQuote(s, i) ==
    LET ends == {j \in (i + 1)..Len(s) :
                    /\ s[j] = "\""
                    /\ (j = Len(s) \/ s[j + 1] # "\"")
                    /\ (j - QuoteRunStart(s, i, j) + 1) % 2 = 1}
    IN  IF ends = {} THEN Len(s) + 1 ELSE Least(ends)

FieldEnd(s, i) ==
    LET from == IF IsQuoted(s, i) THEN ClosingQuote(s, i) + 1 ELSE i
        stop == {j \in from..Len(s) : s[j] \in {",", "\n"}}
    IN  IF stop = {} THEN Len(s) + 1 ELSE Least(stop)

RECURSIVE Unescape(_)
Unescape(f) ==
    IF Len(f) = 0 THEN <<>>
    ELSE IF Len(f) >= 2 /\ f[1] = "\"" /\ f[2] = "\""
         THEN <<"\"">> \o Unescape(SubSeq(f, 3, Len(f)))
    ELSE <<f[1]>> \o Unescape(Tail(f))

FieldText(s, i, e) ==
    IF IsQuoted(s, i)
    THEN LET c == ClosingQuote(s, i)
         IN  Unescape(SubSeq(s, i + 1, c - 1)) \o SubSeq(s, c + 1, e - 1)
    ELSE SubSeq(s, i, e - 1)

RECURSIVE ParseRow(_, _, _)
ParseRow(s, i, row) ==
    LET e == FieldEnd(s, i)
        r == Append(row, FieldText(s, i, e))
    IN  IF e > Len(s) \/ s[e] = "\n" THEN [row |-> r, next |-> e + 1]
        ELSE ParseRow(s, e + 1, r)

RECURSIVE ParseLines(_, _, _)
ParseLines(s, i, rows) ==
    IF i > Len(s) THEN rows
    ELSE LET p == ParseRow(s, i, <<>>)
         IN  ParseLines(s, p.next, Append(rows, p.row))

ParseRows(bytes) == ParseLines(StripBOM(bytes), 1, <<>>)

NA_VALUES == {<<>>, <<"N", "A">>, <<"N", "a", "N">>, <<"n", "a", "n">>,
              <<"n", "u", "l", "l">>, <<"N", "U", "L", "L">>}

IsNA(f) == f \in NA_VALUES

IsIntText(f) == Len(f) > 0 /\ \A i \in 1..Len(f) : IsDigit(f[i])

ColumnDtype(rows, j) ==
    LET have  == {i \in 1..Len(rows) : Len(rows[i]) >= j}
        nonNA == {i \in have : ~IsNA(rows[i][j])}
    IN  IF \A i \in nonNA : IsIntText(rows[i][j])
        THEN IF nonNA = have THEN "int64" ELSE "float64"
        ELSE "object"

NaN == [dtype |-> "float64", nan |-> TRUE, num |-> 0, str |-> <<>>]

StrCell(f) == [dtype |-> "object", nan |-> FALSE, num |-> 0, str |-> f]

NumCell(dtype, n) == [dtype |-> dtype, nan |-> FALSE, num |-> n, str |-> <<>>]

ConvertCell(f, dtype) ==
    IF IsNA(f) THEN NaN
    ELSE IF dtype = "object" THEN StrCell(f)
    ELSE NumCell(dtype, StrToInt(f))

None == [none |-> TRUE, columns |-> <<>>, index |-> <<>>, rows |-> <<>>]

read_csv(bytes) ==
    LET lines == ParseRows(bytes)
        data  == Tail(lines)
    IN  [none    |-> FALSE,
         columns |-> Head(lines),
         index   |-> [i \in 1..Len(data) |-> i - 1],
         rows    |-> [i \in 1..Len(data) |->
                        [j \in 1..Len(data[i]) |->
                            ConvertCell(data[i][j], ColumnDtype(data, j))]]]

(* Variant: a missing store is read as an empty frame instead of None *)
load_history_empty_frame(exists, bytes) ==
    read_csv(IF exists THEN bytes ELSE <<BOM>> \o CsvLine(COLUMNS))

load_history(exists, bytes) == IF exists THEN read_csv(bytes) ELSE None

(* df.sort_index(ascending=False).head(5) and st.dataframe, lines 194-196 *)

(* Variant: the frame is shown in file order, the sort is forgotten *)
sort_index_asc(d) == d

RECURSIVE sort_index_desc(_)
sort_index_desc(d) ==
    IF Len(d.index) = 0 THEN d
    ELSE LET p    == CHOOSE p \in 1..Len(d.index) :
                         \A q \in 1..Len(d.index) : d.index[q] <= d.index[p]
             keep == [i \in 1..(Len(d.index) - 1) |-> IF i < p THEN i ELSE i + 1]
             rest == sort_index_desc(
                        [d EXCEPT !.index = [i \in 1..Len(keep) |-> d.index[keep[i]]],
                                  !.rows  = [i \in 1..Len(keep) |-> d.rows[keep[i]]]])
         IN  [d EXCEPT !.index = <<d.index[p]>> \o rest.index,
                       !.rows  = <<d.rows[p]>> \o rest.rows]

head(d, n) ==
    LET k == IF Len(d.index) < n THEN Len(d.index) ELSE n
    IN  [d EXCEPT !.index = SubSeq(d.index, 1, k), !.rows = SubSeq(d.rows, 1, k)]

NoTable == [shown |-> FALSE, index |-> <<>>, rows |-> <<>>]

render_history(d) ==
    IF d.none THEN NoTable
    ELSE LET v == head(sort_index_desc(d), HEAD_ROWS)
         IN  [shown |-> TRUE, index |-> v.index, rows |-> v.rows]

-----------------------------------------------------------------------------
(* The alert block, lines 139-150, and send_line_broadcast, lines 38-75 *)

(* Variant: the threshold itself raises the alert *)
AlertDue_inclusive(humidity) == humidity <= HUMIDITY_THRESHOLD

AlertDue(humidity) == humidity < HUMIDITY_THRESHOLD

(* Variant: the cooldown ends at 60 seconds instead of after them *)
CooldownOver_inclusive(current_time, last) == (current_time - last) >= COOLDOWN

CooldownOver(current_time, last) == (current_time - last) > COOLDOWN

(* Variant: the alert text without the reading *)
warning_msg_static(humidity) == <<"H", "E", "L", "P", "\n", "W">>

warning_msg(humidity) ==
    <<"H", "E", "L", "P", "\n">> \o IntToStr(humidity) \o <<"%", "\n", "W">>

Sticker == [type |-> "sticker", packageId |-> "11537", stickerId |-> "52002758"]

TextMessage(msg) == [type |-> "text", text |-> msg]

Payload(msg, sticker) ==
    IF sticker THEN <<TextMessage(msg), Sticker>> ELSE <<TextMessage(msg)>>

Gateway == {[raised |-> FALSE, status |-> 200],
            [raised |-> FALSE, status |-> 401],
            [raised |-> TRUE,  status |-> 0]}

NoRequest == [raised |-> FALSE, status |-> 0]

(* Variant: requests.post outside any try, its exception escapes *)
send_line_broadcast_uncaught(has_token, msg, sticker, gw) ==
    IF ~has_token
    THEN [posted |-> FALSE, messages |-> <<>>, ok |-> FALSE, raised |-> FALSE,
          notice |-> "warning: no LINE access token"]
    ELSE [posted |-> TRUE, messages |-> Payload(msg, sticker),
          ok     |-> ~gw.raised /\ gw.status = HTTP_OK,
          raised |-> gw.raised,
          notice |-> IF gw.status = HTTP_OK THEN "toast: broadcast sent"
                     ELSE "error: LINE send failed"]

(* `raised` tells whether the call lets an exception escape to the caller: *)
(* requests.post runs inside try/except Exception (lines 67-75), so never. *)
send_line_broadcast(has_token, msg, sticker, gw) ==
    IF ~has_token
    THEN [posted |-> FALSE, messages |-> <<>>, ok |-> FALSE, raised |-> FALSE,
          notice |-> "warning: no LINE access token"]
    ELSE [posted |-> TRUE, messages |-> Payload(msg, sticker),
          ok     |-> ~gw.raised /\ gw.status = HTTP_OK,
          raised |-> FALSE,
          notice |-> IF gw.raised THEN "error: connection"
                     ELSE IF gw.status = HTTP_OK THEN "toast: broadcast sent"
                     ELSE "error: LINE send failed"]

(* Variant: line 148 left out, the timestamp is never advanced *)
NextAlertTime_stale(current_time, last, sent_ok) == last

NextAlertTime(current_time, last, sent_ok) == current_time

-----------------------------------------------------------------------------
(* Inputs *)

TickSteps == {30, 31}

Reading(humidity, temperature) ==
    [humidity |-> humidity, temperature |-> temperature]

Readings == {Reading(19, 28), Reading(20, 10), Reading(100, 40)}

Texts == {<<"o", "k">>, <<"a", ",", "\"">>}

LogInput(humidity, temperature, text) ==
    [humidity |-> humidity, temperature |-> temperature, text |-> text]

LogInputs == {LogInput(0, 10, <<"o", "k">>),
              LogInput(7, 28, <<>>),
              LogInput(19, 40, <<"7">>),
              LogInput(20, 28, <<"N", "A">>),
              LogInput(55, 33, <<"a", ",", "\"">>),
              LogInput(99, 28, <<"\"">>),
              LogInput(100, 12, <<"a", "\n", "b">>)}

InferenceError == [ok |-> FALSE, text |-> <<>>]

Response(text) == [ok |-> TRUE, text |-> text]

SLIDER_HUMIDITY == 15
SLIDER_TEMPERATURE == 28

NoRun == [n |-> 0, pressed |-> FALSE, at |-> 0,
          humidity |-> SLIDER_HUMIDITY, temperature |-> SLIDER_TEMPERATURE,
          gateway |-> NoRequest, inference |-> InferenceError]

(* A store left by earlier sessions: k rows written by save_to_csv *)

StoredRecord(i) == NewRecord(StartTime - 100 + i, 30 + i, 28, <<"o", "k">>)

RECURSIVE StoredBytes(_)
StoredBytes(k) ==
    IF k = 0 THEN <<>>
    ELSE save_to_csv(k > 1, StoredBytes(k - 1), StoredRecord(k))

-----------------------------------------------------------------------------
(* State machine *)

SessionInit ==
    /\ now = StartTime
    /\ last_alert_time = 0
    /\ history = <<>>
    /\ alerts = <<>>
    /\ ui = {}
    /\ df = None
    /\ table = NoTable
    /\ run = NoRun

Init ==
    /\ SessionInit
    /\ token_set \in BOOLEAN
    /\ db_exists = FALSE
    /\ db_bytes = <<>>
    /\ appended = <<>>

InitLog ==
    /\ SessionInit
    /\ token_set = FALSE
    /\ \E k \in 0..MaxStored :
          /\ db_exists = (k > 0)
          /\ db_bytes = StoredBytes(k)
          /\ appended = [i \in 1..k |-> StoredRecord(i)]

Tick(d, limit) ==
    /\ now + d <= StartTime + limit
    /\ now' = now + d
    /\ UNCHANGED <<token_set, last_alert_time, history, db_exists, db_bytes,
                   alerts, ui, df, table, appended, run>>

(* Lines 186-196: every script run ends by loading and showing the log *)
Render(exists, bytes) ==
    /\ df' = load_history(exists, bytes)
    /\ table' = render_history(load_history(exists, bytes))

(* A script run without the button: lines 133-184 are skipped *)
Rerun(limit) ==
    /\ run.n < limit
    /\ run' = [NoRun EXCEPT !.n = run.n + 1, !.at = now]
    /\ ui' = {}
    /\ Render(db_exists, db_bytes)
    /\ UNCHANGED <<now, token_set, last_alert_time, history, db_exists,
                   db_bytes, alerts, appended>>

Diagnosed(inference) == inference.ok

(* A script run with the button pressed: lines 133-196.  Everything from  *)
(* line 136 to line 181 is inside one try: an exception that escapes a     *)
(* call skips the rest of the block and shows the error of line 184.       *)
Handler(humidity, temperature, gw, inference, limit) ==
    LET current_time == now
        due      == AlertDue(humidity)
        over     == CooldownOver(current_time, last_alert_time)
        sending  == due /\ over
        sent     == send_line_broadcast(token_set, warning_msg(humidity), TRUE, gw)
        aborted  == sending /\ sent.raised
        record   == NewRecord(now, humidity, temperature, inference.text)
        saved    == ~aborted /\ Diagnosed(inference)
        bytes2   == IF saved THEN save_to_csv(db_exists, db_bytes, record)
                    ELSE db_bytes
        exists2  == db_exists \/ saved
    IN  /\ run.n < limit
        /\ run' = [n |-> run.n + 1, pressed |-> TRUE, at |-> now,
                   humidity |-> humidity, temperature |-> temperature,
                   gateway |-> gw, inference |-> inference]
        /\ alerts' = IF sending
                     THEN Append(alerts, [at |-> current_time, posted |-> sent.posted,
                                          ok |-> sent.ok, messages |-> sent.messages])
                     ELSE alerts
        /\ last_alert_time' =
              IF sending /\ ~aborted
              THEN NextAlertTime(current_time, last_alert_time, sent.ok)
              ELSE last_alert_time
        /\ history' = IF saved
                      THEN Append(history, [role |-> "ai", msg |-> inference.text])
                      ELSE history
        /\ appended' = IF saved THEN Append(appended, record) ELSE appended
        /\ db_exists' = exists2
        /\ db_bytes' = bytes2
        /\ ui' = (IF sending THEN {sent.notice} ELSE {})
                 \cup (IF due /\ ~over THEN {"warning: cooldown active"} ELSE {})
                 \cup (IF saved THEN {"success: diagnosis recorded"}
                       ELSE {"error: exception"})
        /\ Render(exists2, bytes2)
        /\ UNCHANGED <<now, token_set>>

Outcomes == {InferenceError} \cup {Response(x) : x \in Texts}

PressButton ==
    \E r \in Readings, inference \in Outcomes :
        IF token_set /\ AlertDue(r.humidity) /\ CooldownOver(now, last_alert_time)
        THEN \E gw \in Gateway :
                Handler(r.humidity, r.temperature, gw, inference, MaxRuns)
        ELSE Handler(r.humidity, r.temperature, NoRequest, inference, MaxRuns)

LogPress ==
    \E i \in LogInputs :
        Handler(i.humidity, i.temperature, NoRequest, Response(i.text), MaxLogRuns)

Next ==
    \/ \E d \in TickSteps : Tick(d, MaxElapsed)
    \/ Rerun(MaxRuns)
    \/ PressButton

NextLog ==
    \/ \E d \in TickSteps : Tick(d, MaxLogElapsed)
    \/ Rerun(MaxLogRuns)
    \/ LogPress

Spec == Init /\ [][Next]_vars

SpecLog == InitLog /\ [][NextLog]_vars

-----------------------------------------------------------------------------
(* Properties *)

Ran == run'.n = run.n + 1

Pressed == Ran /\ run'.pressed

CooldownNotice == "warning: cooldown active"

SendFailed(r) == ~token_set \/ r.gateway.raised \/ r.gateway.status # 200

(* C1: a button press with humidity < 20 and now - last_alert_time > 60   *)
(* whose broadcast fails (no token, non-200 status, or the request raises) *)
(* leaves last_alert_time as it was.                                       *)
C1_FailedSendKeepsCooldown ==
    [][(/\ Pressed
        /\ run'.humidity < 20
        /\ now - last_alert_time > 60
        /\ SendFailed(run'))
       => last_alert_time' = last_alert_time]_vars

(* C2: a button press whose inference call fails appends no record to the *)
(* log, adds no entry to the session history and leaves last_alert_time    *)
(* as it was, for every humidity and every cooldown state.                 *)
C2_InferenceFailureChangesNothing ==
    [][(Pressed /\ ~run'.inference.ok)
       => /\ appended' = appended
          /\ db_exists' = db_exists
          /\ db_bytes' = db_bytes
          /\ history' = history
          /\ last_alert_time' = last_alert_time]_vars

(* C3: send_line_broadcast is called only when now - last_alert_time > 60 *)
(* at the check, any two calls of one session are more than 60 seconds     *)
(* apart, and last_alert_time never decreases.                             *)
C3_BroadcastsRespectCooldown ==
    [][/\ alerts' # alerts =>
            /\ now - last_alert_time > 60
            /\ alerts' = Append(alerts, alerts'[Len(alerts')])
            /\ alerts'[Len(alerts')].at = now
       /\ \A i, j \in 1..Len(alerts') :
            i < j => alerts'[j].at - alerts'[i].at > 60
       /\ last_alert_time' >= last_alert_time]_vars

C3_Witness ==
    /\ Len(alerts) = 2
    /\ alerts[1].ok
    /\ alerts[2].ok
    /\ alerts[2].at - alerts[1].at = 61

(* C4: a button press with humidity >= 20 calls no broadcast, shows no    *)
(* cooldown notice and leaves last_alert_time as it was, whatever the      *)
(* time since the last alert.                                              *)
C4_NoAlertAtOrAboveThreshold ==
    [][(Pressed /\ run'.humidity >= 20)
       => /\ alerts' = alerts
          /\ CooldownNotice \notin ui'
          /\ last_alert_time' = last_alert_time]_vars

C4_Witness ==
    /\ run.pressed
    /\ run.humidity = 20
    /\ last_alert_time > 0
    /\ run.at - last_alert_time <= 60
    /\ CooldownNotice \notin ui

(* C5: a button press with humidity < 20 and now - last_alert_time <= 60  *)
(* calls no broadcast, shows the cooldown notice and leaves                *)
(* last_alert_time as it was.                                              *)
C5_SuppressedByCooldown ==
    [][(Pressed /\ run'.humidity < 20 /\ now - last_alert_time <= 60)
       => /\ alerts' = alerts
          /\ CooldownNotice \in ui'
          /\ last_alert_time' = last_alert_time]_vars

C5_Witness ==
    /\ run.pressed
    /\ run.humidity < 20
    /\ run.at - last_alert_time = 60
    /\ CooldownNotice \in ui

(* C6: a button press with humidity < 20 and now - last_alert_time > 60   *)
(* whose request the gateway answers with status 200 posts the text        *)
(* message holding the humidity in decimal, followed by the sticker, and   *)
(* sets last_alert_time to the time used in the check.                     *)
C6_SentWithSticker ==
    [][(/\ Pressed
        /\ run'.humidity < 20
        /\ now - last_alert_time > 60
        /\ token_set
        /\ ~run'.gateway.raised
        /\ run'.gateway.status = 200)
       => /\ Len(alerts') = Len(alerts) + 1
          /\ LET a == alerts'[Len(alerts')]
             IN  /\ a.posted
                 /\ a.ok
                 /\ Len(a.messages) = 2
                 /\ a.messages[1].type = "text"
                 /\ \E i, j \in 1..Len(a.messages[1].text) :
                       /\ IsIntText(SubSeq(a.messages[1].text, i, j))
                       /\ (i > 1 => ~IsDigit(a.messages[1].text[i - 1]))
                       /\ ~IsDigit(a.messages[1].text[j + 1])
                       /\ StrToInt(SubSeq(a.messages[1].text, i, j)) = run'.humidity
                 /\ a.messages[2].type = "sticker"
          /\ "toast: broadcast sent" \in ui'
          /\ last_alert_time' = now]_vars

C6_Witness ==
    /\ run.n = 1
    /\ run.pressed
    /\ run.humidity < 20
    /\ run.gateway.status = 200
    /\ Len(alerts) = 1
    /\ alerts[1].ok
    /\ last_alert_time = now

(* C7: a button press whose inference call succeeds appends exactly one   *)
(* row holding that press's humidity, temperature and the returned text,   *)
(* whatever the alert did; the log of a session that started without a     *)
(* store holds as many rows as there were successful diagnosis calls.      *)
C7_AlertNeverBlocksLogging ==
    [][LET before == IF db_exists THEN ParseRows(db_bytes) ELSE <<COLUMNS>>
           after  == IF db_exists' THEN ParseRows(db_bytes') ELSE <<COLUMNS>>
           last   == after[Len(after)]
       IN  /\ (Pressed /\ run'.inference.ok) =>
                /\ db_exists'
                /\ after = Append(before, last)
                /\ StrToInt(last[2]) = run'.humidity
                /\ StrToInt(last[3]) = run'.temperature
                /\ last[4] = run'.inference.text
                /\ history' = Append(history, [role |-> "ai", msg |-> run'.inference.text])
           /\ (Ran /\ ~(run'.pressed /\ run'.inference.ok)) =>
                /\ db_exists' = db_exists
                /\ db_bytes' = db_bytes
                /\ history' = history
           /\ Len(after) = Len(history') + 1]_vars

C7_Witness ==
    /\ run.pressed
    /\ run.inference.ok
    /\ Len(history) = 2
    /\ Len(alerts) = 1
    /\ ~alerts[1].ok
    /\ CooldownNotice \in ui

RecordCells(r) ==
    <<StrCell(r.time), NumCell("int64", r.humidity),
      NumCell("int64", r.temperature), StrCell(r.text)>>

(* C8: load_history returns exactly the records handed to save_to_csv, in *)
(* that order; every append keeps the old contents as a prefix of the new  *)
(* contents; the header is written once, by the append that creates the    *)
(* store.                                                                  *)
C8_AppendThenLoadIsLossless ==
    [][LET d     == load_history(db_exists', db_bytes')
           lines == IF db_exists' THEN ParseRows(db_bytes') ELSE <<>>
       IN  /\ d.none => appended' = <<>>
           /\ ~d.none =>
                /\ Len(d.rows) = Len(appended')
                /\ \A i \in 1..Len(d.rows) : d.rows[i] = RecordCells(appended'[i])
           /\ db_exists =>
                /\ db_exists'
                /\ Len(db_bytes') >= Len(db_bytes)
                /\ SubSeq(db_bytes', 1, Len(db_bytes)) = db_bytes
           /\ db_exists' =>
                /\ lines[1] = COLUMNS
                /\ \A i \in 2..Len(lines) : lines[i] # COLUMNS
                /\ \A i \in 2..Len(db_bytes') : db_bytes'[i] # BOM]_vars

(* The part of C8 that the reader's NA filter and type inference leave    *)
(* alone: the rows come back in append order, one per record, with the     *)
(* time, humidity and temperature of the record.                           *)
C8_OrderAndReadingsKept ==
    LET d == load_history(db_exists, db_bytes)
    IN  /\ d.none => appended = <<>>
        /\ ~d.none =>
             /\ Len(d.rows) = Len(appended)
             /\ \A i \in 1..Len(d.rows) :
                   /\ d.index[i] = i - 1
                   /\ SubSeq(d.rows[i], 1, 3) = SubSeq(RecordCells(appended[i]), 1, 3)

(* C9: a script run that finds no store gets None from load_history, not  *)
(* an error, shows no history table and leaves the store absent.           *)
C9_MissingStoreLoadsEmpty ==
    [][(Ran /\ ~db_exists /\ ~(run'.pressed /\ run'.inference.ok))
       => /\ ~db_exists'
          /\ db_bytes' = db_bytes
          /\ df' = None
          /\ table' = NoTable
          /\ (~run'.pressed => ui' = {})]_vars

C9_Witness ==
    /\ run.n = 2
    /\ ~db_exists
    /\ df.none
    /\ ~table.shown

(* C10: after a script run the table shows the last 5 rows of the log,    *)
(* most recently appended first, or all of them, in reverse append order,  *)
(* when the log holds fewer than 5.                                        *)
C10_TableShowsLastFiveReversed ==
    run.n > 0 =>
        LET d == load_history(db_exists, db_bytes)
            k == Len(appended)
            m == IF k < 5 THEN k ELSE 5
        IN  /\ table.shown = db_exists
            /\ Len(d.rows) = k
            /\ Len(table.rows) = m
            /\ \A i \in 1..m :
                  /\ table.index[i] = k - i
                  /\ table.rows[i] = d.rows[k + 1 - i]
                  /\ table.rows[i][2].num = appended[k + 1 - i].humidity
                  /\ table.rows[i][3].num = appended[k + 1 - i].temperature

C10_Witness ==
    /\ run.n > 0
    /\ Len(appended) = 6
    /\ table.shown
    /\ Len(table.rows) = 5
    /\ table.index = <<5, 4, 3, 2, 1>>

C10_WitnessShort ==
    /\ run.n > 0
    /\ Len(appended) = 3
    /\ table.index = <<2, 1, 0>>

=============================================================================
